---- MODULE Spec2Model ----
(***************************************************************************)
(* Deal processing pipeline of Backend/main.py: the upload endpoint, the   *)
(* background process_deal task, generate_memo, the status query, the      *)
(* delete endpoint and download_memo, run against the Deal Store           *)
(* (FirestoreManager), with the text extraction of Backend/utils/          *)
(* ocr_utils.py.  Every await of the source is a suspension point: each    *)
(* action below is the code between two awaits, together with the awaited  *)
(* call's outcome.  Spec is the pipeline; SpecOcr runs                     *)
(* _extract_text_from_pdf on its own, on the artifacts of one OCR job.     *)
(***************************************************************************)
EXTENDS Naturals, Sequences, FiniteSets, TLC

\* ------------------------------------------------------------------ bounds
NumDealIds == 2
MaxUploads == 2
MaxMemoCalls == 2
MaxDeletes == 1
MaxStatusCalls == 1
MaxDownloads == 1
\* The artifacts of one OCR job and the pages of its document (SpecOcr).
MaxBlobs == 3
MaxPages == 2
\* How many requests of any kind arrive in one run.
MaxCalls == 3
\* How many external calls (Deal Store, Blob Store, OCR, summarizer,
\* enrichment, exporter) fail in one run.
MaxFaults == 2

\* Values uuid4().hex[:6] can take (main.py:84), cut down to NumDealIds.
DealIds == 1..NumDealIds
Uploads == 1..MaxUploads
MemoCalls == 1..MaxMemoCalls
Deletes == 1..MaxDeletes
StatusCalls == 1..MaxStatusCalls
Downloads == 1..MaxDownloads

\* Request bodies of POST /generate_memo (Weightage).
Weightages == {"w1", "w2"}

\* ------------------------------------------------------------ option values
None == <<>>
Some(v) == <<v>>
IsSome(o) == o # None

\* ---------------------------------------------------------------- Deal Store
\* A deal document.  metadata is DealMetadata(...).dict() plus the dotted
\* paths process_deal and generate_memo write; the other sub-documents are
\* absent (None) until written.
NewMetadata(deal_id) ==
    [deal_id |-> deal_id, status |-> "uploading", created_at |-> "t",
     error |-> None, processed_at |-> None, company_name |-> None,
     founder_names |-> None, sector |-> None, weightage |-> None]

NewDeal(deal_id) ==
    [metadata |-> NewMetadata(deal_id), raw_files |-> None,
     extracted_text |-> None, public_data |-> None, memo |-> None]

\* The dotted field path of each metadata key, as the callers spell it.
MetaPath ==
    [deal_id |-> "metadata.deal_id", status |-> "metadata.status",
     created_at |-> "metadata.created_at", error |-> "metadata.error",
     processed_at |-> "metadata.processed_at",
     company_name |-> "metadata.company_name",
     founder_names |-> "metadata.founder_names",
     sector |-> "metadata.sector", weightage |-> "metadata.weightage"]

\* firestore_manager.get_deal: the document, or None when there is none.
get_deal(s, deal_id) ==
    IF deal_id \in DOMAIN s THEN Some(s[deal_id]) ELSE None

\* firestore_manager.create_deal: sets the document, replacing any document
\* already stored under deal_id.
create_deal(s, deal_id, metadata) ==
    [d \in DOMAIN s \cup {deal_id} |->
        IF d = deal_id
        THEN [NewDeal(deal_id) EXCEPT !.metadata = metadata]
        ELSE s[d]]

\* The field-path merge of one update into one document: a top-level key
\* replaces that sub-document, a "metadata.<k>" path replaces that key only.
MergeFields(doc, updates) ==
    [f \in DOMAIN doc |->
        IF f \in DOMAIN updates THEN updates[f]
        ELSE IF f = "metadata"
        THEN [k \in DOMAIN doc.metadata |->
                 IF MetaPath[k] \in DOMAIN updates
                 THEN updates[MetaPath[k]]
                 ELSE doc.metadata[k]]
        ELSE doc[f]]

\* firestore_manager.update_deal on a stored document (it raises when the
\* document does not exist: callers test UpdateRaises first).
update_deal(s, deal_id, updates) ==
    [s EXCEPT ![deal_id] = MergeFields(s[deal_id], updates)]

UpdateRaises(s, deal_id, ok) == ~ok \/ deal_id \notin DOMAIN s

\* firestore_manager.delete_deal.
delete_deal(s, deal_id) == [d \in DOMAIN s \ {deal_id} |-> s[d]]

\* ------------------------------------------------------------- exceptions
\* str(e) of the exceptions the pipeline can see.
StoreError == "store unavailable"
NotFoundError == "no document to update"
BlobError == "blob upload failed"
GatherError == "gather_data failed"
SummarizerError == "summarizer failed"
MemoError == "generate_memo failed"
DocxError == "docx export failed"
NoneSubscriptError == "'NoneType' object is not subscriptable"
KeyErrorCompany == "'company_name_response'"
KeyErrorMemo == "'memo'"

\* What update_deal raises: the store failure, else the missing document.
UpdateError(ok) == IF ~ok THEN StoreError ELSE NotFoundError

\* HTTPException(status_code, detail); a response is kept in the same shape.
HTTPException(status_code, detail) ==
    [status_code |-> status_code, detail |-> detail]

\* ------------------------------------------------------------------- state
VARIABLES
    store,      \* Deal Store: deal_id -> document, for the stored deals
    up,         \* per POST /upload call: the request, then its process_deal task
    memo,       \* per POST /generate_memo call
    del,        \* per DELETE /deals/{deal_id} call
    stat,       \* per GET /status/{deal_id} call
    dl,         \* per GET /download_memo/{deal_id} call
    job,        \* a run of _extract_text_from_pdf on its own (SpecOcr)
    faults,     \* external calls that have failed so far
    alone       \* per deal_id: the Deal Store as the calls made for that
                \* deal_id alone leave it

vars == <<store, up, memo, del, stat, dl, job, faults, alone>>

\* temp_res = {} (main.py:187).
EmptyDict == [x \in {} |-> None]

\* A call of POST /upload and the process_deal task it schedules: the program
\* counter, the locals of the two functions (gone when the function has
\* returned), the response sent, and hist, the writes the task has made.
IdleUpload ==
    [pc |-> "idle", deal_id |-> 0, file_urls |-> {}, page_texts |-> None,
     ocr |-> "none", temp_res |-> EmptyDict, extracted_text |-> None,
     public_data |-> None, e |-> None, resp |-> None, hist |-> {},
     created |-> FALSE]

\* A call of POST /generate_memo: the program counter, the locals, the
\* exception raised inside the try block, the response sent, seen, the
\* status the call read at main.py:146 ("absent" when there was no document),
\* and wrote, the field paths the call has written to the Deal Store.
IdleMemo ==
    [pc |-> "idle", deal_id |-> 0, weightage |-> "w1", deal_data |-> None,
     memo_text |-> None, docx_url |-> None, seen |-> "unread",
     raised |-> None, resp |-> None, wrote |-> {}]

\* A call of DELETE /deals/{deal_id}.
IdleDelete == [pc |-> "idle", deal_id |-> 0, raised |-> None, resp |-> None]

\* A call of GET /status/{deal_id}: found tells whether get_deal returned a
\* document.
IdleStatus ==
    [pc |-> "idle", deal_id |-> 0, found |-> "unread", raised |-> None,
     resp |-> None]

\* A call of GET /download_memo/{deal_id}: found tells what get_deal
\* returned ("absent", "no_memo" or "memo"), blob whether download_file was
\* called, unhandled the exception that left the endpoint uncaught.
IdleDownload ==
    [pc |-> "idle", deal_id |-> 0, found |-> "unread", gs_url |-> None,
     blob |-> FALSE, unhandled |-> None, resp |-> None]

\* No extraction run on its own.
NoJob == [pc |-> "none"]

Init ==
    /\ store = <<>>
    /\ up = [u \in Uploads |-> IdleUpload]
    /\ memo = [m \in MemoCalls |-> IdleMemo]
    /\ del = [x \in Deletes |-> IdleDelete]
    /\ stat = [q \in StatusCalls |-> IdleStatus]
    /\ dl = [g \in Downloads |-> IdleDownload]
    /\ job = NoJob
    /\ faults = 0
    /\ alone = [a \in DealIds |-> <<>>]

\* ---- the Deal Store of one deal's calls on their own
\* alone[a] is the Deal Store of a run in which only the calls made for
\* deal_id a take place: each Deal Store call of a request or task for a is
\* applied to alone[a] too, with the document it names and the outcome it
\* has, and the calls made for other deal_ids are not.
AloneCreate(a, deal_id, ok, metadata) ==
    [alone EXCEPT ![a] = IF ok THEN create_deal(@, deal_id, metadata) ELSE @]

AloneUpdate(a, deal_id, ok, updates) ==
    [alone EXCEPT ![a] = IF UpdateRaises(@, deal_id, ok) THEN @
                         ELSE update_deal(@, deal_id, updates)]

AloneDelete(a, deal_id, ok) ==
    [alone EXCEPT ![a] = IF ok THEN delete_deal(@, deal_id) ELSE @]

\* The outcomes an external call can have, ok or not, and the count kept.
Outcomes == IF faults < MaxFaults THEN BOOLEAN ELSE {TRUE}
Fault(ok) == faults' = IF ok THEN faults ELSE faults + 1

\* The requests that have arrived.
Arrived(calls) == Cardinality({i \in DOMAIN calls : calls[i].pc # "idle"})
NumCalls ==
    Arrived(up) + Arrived(memo) + Arrived(del) + Arrived(stat) + Arrived(dl)

\* The event loop is free to run a coroutine: no process_deal task is inside
\* the Vision calls of ocr_utils.py 105-109, async_batch_annotate_files and
\* op.result(timeout=600), which return when the OCR job is done or has
\* timed out and are no awaits.
LoopFree == \A u \in Uploads : up[u].pc # "p_ocr"

\* Request i of its kind arrives: requests are numbered in the order they
\* arrive.
Arrives(calls, i) ==
    /\ LoopFree
    /\ NumCalls < MaxCalls
    /\ calls[i].pc = "idle"
    /\ IF i = 1 THEN TRUE ELSE calls[i - 1].pc # "idle"

\* ================================================================= upload
\* main.py 118-120: the endpoint's except clause answers 500 with str(e).
UploadFails(u, msg) ==
    up' = [up EXCEPT ![u].pc = "u_failed", ![u].file_urls = {},
                     ![u].resp = Some(HTTPException(500, msg))]

\* main.py 84-95: a deal_id is drawn, the metadata built and create_deal awaited.
UploadCreate(u) ==
    /\ Arrives(up, u)
    /\ \E deal_id \in DealIds, ok \in Outcomes :
          /\ Fault(ok)
          /\ alone' = AloneCreate(deal_id, deal_id, ok, NewMetadata(deal_id))
          /\ IF ok
             THEN /\ store' = create_deal(store, deal_id, NewMetadata(deal_id))
                  /\ up' = [up EXCEPT ![u].pc = "u_blob", ![u].deal_id = deal_id,
                                      ![u].created = TRUE]
             ELSE /\ up' = [up EXCEPT ![u].pc = "u_failed",
                                      ![u].deal_id = deal_id,
                                      ![u].resp = Some(HTTPException(500, StoreError))]
                  /\ UNCHANGED store
    /\ UNCHANGED <<memo, del, stat, dl, job>>

\* main.py 98-102: the pitch deck goes to the Blob Store.
UploadBlob(u) ==
    /\ LoopFree
    /\ up[u].pc = "u_blob"
    /\ \E ok \in Outcomes :
          /\ Fault(ok)
          /\ IF ok
             THEN up' = [up EXCEPT ![u].pc = "u_raw",
                                   ![u].file_urls = {"pitch_deck_url"}]
             ELSE UploadFails(u, BlobError)
    /\ UNCHANGED <<store, memo, del, stat, dl, job, alone>>

\* main.py 105-116: raw_files is recorded, process_deal is scheduled and the
\* response returned.
UploadRawFiles(u) ==
    /\ LoopFree
    /\ up[u].pc = "u_raw"
    /\ \E ok \in Outcomes :
          /\ Fault(ok)
          /\ alone' = AloneUpdate(up[u].deal_id, up[u].deal_id, ok,
                                  ("raw_files" :> Some(up[u].file_urls)))
          /\ IF UpdateRaises(store, up[u].deal_id, ok)
             THEN /\ UploadFails(u, UpdateError(ok))
                  /\ UNCHANGED store
             ELSE /\ store' = update_deal(store, up[u].deal_id,
                                  ("raw_files" :> Some(up[u].file_urls)))
                  /\ up' = [up EXCEPT ![u].pc = "p_start",
                                      ![u].resp = Some(HTTPException(200, "uploaded"))]
    /\ UNCHANGED <<memo, del, stat, dl, job>>

\* ====================================================== text extraction stage
\* ---- the OCR output artifacts under out_prefix (ocr_utils.py 112-126)
\* The characters of artifact names, in ascending code point order: Python
\* compares the names of sorted(..., key=lambda b: b.name) by code point.
NameChars == <<"-", ".", "0", "1", "2", "j", "n", "o", "s", "t", "x">>
Ord(ch) == CHOOSE i \in 1..Len(NameChars) : NameChars[i] = ch

\* a < b for two names (sequences of characters), as Python orders str.
RECURSIVE NameLess(_, _)
NameLess(a, b) ==
    IF b = <<>> THEN FALSE
    ELSE IF a = <<>> THEN TRUE
    ELSE IF Head(a) # Head(b) THEN Ord(Head(a)) < Ord(Head(b))
    ELSE NameLess(Tail(a), Tail(b))

DotJson == <<".", "j", "s", "o", "n">>

\* blob.name.endswith(".json") (ocr_utils.py:122).
EndsWithJson(name) ==
    /\ Len(name) >= Len(DotJson)
    /\ SubSeq(name, Len(name) - Len(DotJson) + 1, Len(name)) = DotJson

\* sorted(list(...), key=lambda b: b.name) (ocr_utils.py 116-119): each
\* blob is put in front of the first blob with a greater name.
RECURSIVE Insert(_, _)
Insert(blob, sorted) ==
    IF sorted = <<>> THEN <<blob>>
    ELSE IF NameLess(blob.name, Head(sorted).name)
    THEN <<blob>> \o sorted
    ELSE <<Head(sorted)>> \o Insert(blob, Tail(sorted))

\* The blobs left in the order of the listing.
SortedByName_ListingOrder(blobs) == blobs
RECURSIVE SortedByName(_)
SortedByName(blobs) ==
    IF blobs = <<>> THEN <<>>
    ELSE Insert(blobs[Len(blobs)], SortedByName(SubSeq(blobs, 1, Len(blobs) - 1)))

\* ---- one page response (ocr_utils.py 128-153)
\* sep.join(parts) for strings.
RECURSIVE Join(_, _)
Join(sep, parts) ==
    IF parts = <<>> THEN ""
    ELSE IF Len(parts) = 1 THEN parts[1]
    ELSE parts[1] \o sep \o Join(sep, Tail(parts))

\* The concatenation of a sequence of sequences.
RECURSIVE Flatten(_)
Flatten(seqs) == IF seqs = <<>> THEN <<>> ELSE Head(seqs) \o Flatten(Tail(seqs))

\* str.strip() on the texts the page responses below produce.
Strip(t) ==
    CASE t \in {"", " ", "\n"} -> ""
      [] t = " beta " -> "beta"
      [] t = "go to\n" -> "go to"
      [] OTHER -> t

\* A page response: text is fullTextAnnotation.text ("" when absent), pages
\* the pages as sequences of blocks, a block a sequence of paragraphs, a
\* paragraph a sequence of words, a word the sequence of its symbols' texts;
\* bad tells that walking the pages raises (a value of the wrong type).
Response(text, pages, bad) == [text |-> text, pages |-> pages, bad |-> bad]

\* ocr_utils.py 135-150: the text rebuilt from words and symbols.
Reconstructed(resp) ==
    IF resp.bad THEN ""
    ELSE LET paras == Flatten(Flatten(resp.pages))
             words(para) == [w \in 1..Len(para) |-> Join("", para[w])]
             lines == [k \in 1..Len(paras) |-> Join(" ", words(paras[k]))]
         IN Strip(Join("\n", lines))

\* ocr_utils.py 130-150: the page text before the test of line 152.
PageText(resp) == IF resp.text # "" THEN resp.text ELSE Reconstructed(resp)

\* ocr_utils.py 128-153 for the responses of one blob: the stripped texts of
\* the pages that have text.
RECURSIVE BlobTexts(_)
BlobTexts(responses) ==
    IF responses = <<>> THEN <<>>
    ELSE (IF Strip(PageText(Head(responses))) # ""
          THEN <<Strip(PageText(Head(responses)))>>
          ELSE <<>>) \o BlobTexts(Tail(responses))

\* ---- the artifacts' contents
\* What download_as_text returns, as json.loads sees it: text that is no
\* JSON, or an object whose "responses" key holds the page responses (None
\* when the key is absent).
NotJson == [json |-> FALSE, responses |-> None]
JsonBody(responses) == [json |-> TRUE, responses |-> responses]

\* data.get("responses", []) (ocr_utils.py:128).
Responses(data) == IF data.responses = None THEN <<>> ELSE data.responses[1]

\* ---- _extract_text_from_pdf (ocr_utils.py 70-168)
\* The steps of _extract_text_from_pdf that can raise: starting the job,
\* op.result (which raises on the 600 s timeout too), list_blobs,
\* download_as_text and blob.delete; json.loads raises on NotJson.
FailPoints == {"none", "start", "wait", "list", "download", "delete"}

\* ocr_utils.py 121-159: the loop over the sorted blobs from blob i on, with
\* the texts collected so far; raised tells that the loop was left by an
\* exception.
RECURSIVE ReadBlobs(_, _, _, _)
ReadBlobs(blobs, i, texts, fail) ==
    IF i > Len(blobs) THEN [raised |-> FALSE, texts |-> texts]
    ELSE IF ~EndsWithJson(blobs[i].name)
    THEN ReadBlobs(blobs, i + 1, texts, fail)
    ELSE IF fail = "download" \/ ~blobs[i].body.json
    THEN [raised |-> TRUE, texts |-> texts]
    ELSE ReadBlobs(blobs, i + 1,
                   texts \o BlobTexts(Responses(blobs[i].body)), fail)

\* An extraction that returns no page at all.
ExtractionSentinel_NoPage == <<>>
\* ocr_utils.py 163 and 168: the single empty page.
ExtractionSentinel == <<"">>

\* ocr_utils.py 74-168 on the artifacts as the store lists them: raised
\* tells that the except clause of line 165 was entered.
Extraction(listing, fail) ==
    IF fail \in {"start", "wait", "list"}
    THEN [raised |-> TRUE, texts |-> ExtractionSentinel]
    ELSE LET read == ReadBlobs(SortedByName(listing), 1, <<>>, fail)
         IN IF read.raised
            THEN [raised |-> TRUE, texts |-> ExtractionSentinel]
            ELSE [raised |-> FALSE,
                  texts |-> IF read.texts # <<>> THEN read.texts
                            ELSE ExtractionSentinel]

extract_text_from_pdf(listing, fail) == Extraction(listing, fail).texts

\* ---- the decks of the pipeline
Name(stem) == stem \o DotJson
\* A two-page deck in one artifact, a deck on which OCR finds no text, and
\* an artifact that is no JSON.
DeckListings ==
    { <<[name |-> Name(<<"1">>),
         body |-> JsonBody(Some(<<Response("deck p1", <<>>, FALSE),
                                  Response("deck p2", <<>>, FALSE)>>))]>>,
      <<[name |-> Name(<<"1">>),
         body |-> JsonBody(Some(<<Response("", <<>>, FALSE)>>))]>>,
      <<[name |-> Name(<<"1">>), body |-> NotJson]>> }

\* What _extract_text_from_pdf can return in process_deal: the stripped
\* texts of the pages that have text, or [""] when there are none ("empty")
\* or when a step raised ("raised").
OcrOutcomes ==
    { [ocr |-> IF Extraction(listing, fail).raised THEN "raised"
               ELSE IF extract_text_from_pdf(listing, fail) = ExtractionSentinel
               THEN "empty" ELSE "ok",
       texts |-> extract_text_from_pdf(listing, fail)] :
          listing \in DeckListings, fail \in FailPoints }

\* str(i + 1) of process_pdf's raw dict.
PageKey(i) == <<"1", "2", "3", "4">>[i]

\* ocr_utils.py 45-47: the pages with text, each under its page label
\* ("\n\n".join of the labelled pages, kept as the sequence that is joined).
RECURSIVE LabelledPages(_, _)
LabelledPages(page_texts, i) ==
    IF i > Len(page_texts) THEN <<>>
    ELSE (IF page_texts[i] # ""
          THEN <<[page |-> PageKey(i), text |-> page_texts[i]]>>
          ELSE <<>>) \o LabelledPages(page_texts, i + 1)

full_text(page_texts) == LabelledPages(page_texts, 1)

\* ocr_utils.py 58: {str(i + 1): t for i, t in enumerate(page_texts)}.
RawPages(page_texts) ==
    [k \in {PageKey(i) : i \in 1..Len(page_texts)} |->
        page_texts[CHOOSE i \in 1..Len(page_texts) : PageKey(i) = k]]

\* summarizer.summarize_pitch_deck: the four fields, empty strings for an
\* empty text.
summarize_pitch_deck(text) ==
    IF text = <<>>
    THEN [summary_res |-> "", founder_response |-> "", sector_response |-> "",
          company_name_response |-> ""]
    ELSE [summary_res |-> "summary", founder_response |-> "founders",
          sector_response |-> "sector", company_name_response |-> "company"]

\* ocr_utils.py 57-63: process_pdf's result when the summarizer returned.
PdfData(page_texts, concise_summary) ==
    [raw |-> RawPages(page_texts),
     concise |-> concise_summary.summary_res,
     founder_response |-> concise_summary.founder_response,
     sector_response |-> concise_summary.sector_response,
     company_name_response |-> concise_summary.company_name_response]

\* ocr_utils.py 65-68: process_pdf's result when anything in it raised.
PdfFallback == [raw |-> ("1" :> ""), concise |-> "Error in OCR processing."]

\* main.py 194-197.
ExtractedText(pdf_data) ==
    [pitch_deck |-> [raw |-> pdf_data.raw, concise |-> pdf_data.concise]]

\* data_gatherer.gather_data: findings about the three entities.
gather_data(company_name, founder_names, sector) ==
    [company |-> company_name, founders |-> founder_names, sector |-> sector]

\* One document named by every task and call.
DealOf_FirstDeal(call) == 1
\* The deal_id parameter of process_deal (main.py:181) and of generate_memo
\* (main.py:139): the document every Deal Store call of the function names.
DealOf(call) == call.deal_id

\* =========================================================== process_deal
\* main.py 224-226: the except clause is entered with e and sends its update.
ProcRaise(u, msg) ==
    up' = [up EXCEPT ![u].pc = "p_handler", ![u].e = Some(msg),
                     ![u].page_texts = None]

\* main.py 185-191 and ocr_utils.py 42, 74-109: the update of status
\* processing returns; then, with no suspension in between, the Vision
\* calls of ocr_utils.py 105-109 are entered.  Without a pitch deck the task goes on
\* to get_deal (main.py 207).
ProcStart(u) ==
    /\ LoopFree
    /\ up[u].pc = "p_start"
    /\ \E ok \in Outcomes :
          /\ Fault(ok)
          /\ alone' = AloneUpdate(up[u].deal_id, DealOf(up[u]), ok,
                                  ("metadata.status" :> "processing"))
          /\ IF UpdateRaises(store, DealOf(up[u]), ok)
             THEN /\ ProcRaise(u, UpdateError(ok))
                  /\ UNCHANGED store
             ELSE /\ store' = update_deal(store, DealOf(up[u]),
                                  ("metadata.status" :> "processing"))
                  /\ up' = [up EXCEPT
                        ![u].pc = IF "pitch_deck_url" \in up[u].file_urls
                                  THEN "p_ocr" ELSE "p_get",
                        ![u].hist = @ \cup {"set_processing"}]
    /\ UNCHANGED <<memo, del, stat, dl, job>>

\* ocr_utils.py 105-168 and 42-50: the Vision calls return or raise, the
\* artifacts are read, _extract_text_from_pdf returns and the summarizer is
\* called.
ProcOcr(u) ==
    /\ up[u].pc = "p_ocr"
    /\ \E o \in OcrOutcomes :
          /\ o.ocr = "raised" => FALSE \in Outcomes
          /\ Fault(o.ocr # "raised")
          /\ up' = [up EXCEPT ![u].pc = "p_sum",
                              ![u].page_texts = Some(o.texts),
                              ![u].ocr = o.ocr]
    /\ UNCHANGED <<store, memo, del, stat, dl, job, alone>>

\* ocr_utils.py 50-68 and main.py 193-207: the summarizer returns or raises,
\* process_pdf returns its result or the fallback, and get_deal is called.
ProcSummarize(u) ==
    /\ LoopFree
    /\ up[u].pc = "p_sum"
    /\ \E ok \in Outcomes :
          LET page_texts == up[u].page_texts[1]
              pdf_data == IF ok
                          THEN PdfData(page_texts,
                                   summarize_pitch_deck(full_text(page_texts)))
                          ELSE PdfFallback
          IN /\ Fault(ok)
             /\ up' = [up EXCEPT ![u].pc = "p_get",
                                 ![u].page_texts = None,
                                 ![u].temp_res = pdf_data,
                                 ![u].extracted_text = Some(ExtractedText(pdf_data))]
    /\ UNCHANGED <<store, memo, del, stat, dl, job, alone>>

\* main.py 207-210: get_deal returns; metadata is read from the document and
\* the three entity keys from temp_res; gather_data is called.
ProcGetDeal(u) ==
    /\ LoopFree
    /\ up[u].pc = "p_get"
    /\ \E ok \in Outcomes :
          LET deal_data == get_deal(store, DealOf(up[u])) IN
          /\ Fault(ok)
          /\ IF ~ok THEN ProcRaise(u, StoreError)
             ELSE IF deal_data = None
             THEN ProcRaise(u, NoneSubscriptError)
             ELSE IF "company_name_response" \notin DOMAIN up[u].temp_res
             THEN ProcRaise(u, KeyErrorCompany)
             ELSE up' = [up EXCEPT ![u].pc = "p_gather"]
    /\ UNCHANGED <<store, memo, del, stat, dl, job, alone>>

\* main.py 210-212: gather_data returns or raises; the commit is sent.
ProcGather(u) ==
    /\ LoopFree
    /\ up[u].pc = "p_gather"
    /\ \E ok \in Outcomes :
          /\ Fault(ok)
          /\ IF ok
             THEN up' = [up EXCEPT
                           ![u].pc = "p_commit",
                           ![u].public_data =
                               Some(gather_data(up[u].temp_res.company_name_response,
                                                up[u].temp_res.founder_response,
                                                up[u].temp_res.sector_response))]
             ELSE ProcRaise(u, GatherError)
    /\ UNCHANGED <<store, memo, del, stat, dl, job, alone>>

\* The success commit with the sector left out.
CommitFields_NoSector(t) ==
    ("extracted_text" :> Some(t.extracted_text[1]))
    @@ ("public_data" :> Some(t.public_data[1]))
    @@ ("metadata.status" :> "processed")
    @@ ("metadata.processed_at" :> Some("t"))
    @@ ("metadata.company_name" :> Some(t.temp_res.company_name_response))
    @@ ("metadata.founder_names" :> Some(t.temp_res.founder_response))

\* main.py 212-220: the seven fields of the success commit, one update.
CommitFields(t) ==
    ("extracted_text" :> Some(t.extracted_text[1]))
    @@ ("public_data" :> Some(t.public_data[1]))
    @@ ("metadata.status" :> "processed")
    @@ ("metadata.processed_at" :> Some("t"))
    @@ ("metadata.company_name" :> Some(t.temp_res.company_name_response))
    @@ ("metadata.founder_names" :> Some(t.temp_res.founder_response))
    @@ ("metadata.sector" :> Some(t.temp_res.sector_response))

\* The locals are gone once the task has returned or died.
Finished(t, pc, event) ==
    [t EXCEPT !.pc = pc, !.file_urls = {}, !.page_texts = None,
              !.temp_res = EmptyDict, !.extracted_text = None,
              !.public_data = None, !.hist = @ \cup {event}]

\* main.py 212-222: the commit is applied and the task returns, or it raises.
ProcCommit(u) ==
    /\ LoopFree
    /\ up[u].pc = "p_commit"
    /\ \E ok \in Outcomes :
          /\ Fault(ok)
          /\ alone' = AloneUpdate(up[u].deal_id, DealOf(up[u]), ok,
                                  CommitFields(up[u]))
          /\ IF UpdateRaises(store, DealOf(up[u]), ok)
             THEN /\ ProcRaise(u, UpdateError(ok))
                  /\ UNCHANGED store
             ELSE /\ store' = update_deal(store, DealOf(up[u]), CommitFields(up[u]))
                  /\ up' = [up EXCEPT ![u] = Finished(@, "p_done", "committed")]
    /\ UNCHANGED <<memo, del, stat, dl, job>>

\* main.py 226-229: the two fields of the except clause's update.
ErrorFields(t) ==
    ("metadata.status" :> "error") @@ ("metadata.error" :> Some(t.e[1]))

\* main.py 226-229: the except clause's update is applied and the task
\* returns; when the update raises, the exception leaves the task.
ProcHandler(u) ==
    /\ LoopFree
    /\ up[u].pc = "p_handler"
    /\ \E ok \in Outcomes :
          /\ Fault(ok)
          /\ alone' = AloneUpdate(up[u].deal_id, DealOf(up[u]), ok,
                                  ErrorFields(up[u]))
          /\ IF UpdateRaises(store, DealOf(up[u]), ok)
             THEN /\ up' = [up EXCEPT ![u] = Finished(@, "p_crashed", "handler_raised")]
                  /\ UNCHANGED store
             ELSE /\ store' = update_deal(store, DealOf(up[u]), ErrorFields(up[u]))
                  /\ up' = [up EXCEPT ![u] = Finished(@, "p_done", "set_error")]
    /\ UNCHANGED <<memo, del, stat, dl, job>>

\* str(e) of the caught exception (main.py 134, 176, 269): the message of an
\* exception that is no HTTPException, "<status_code>: <detail>" for an
\* HTTPException (Starlette's HTTPException.__str__).
Str(exc) ==
    IF exc.status_code = 0 THEN exc.detail
    ELSE ToString(exc.status_code) \o ": " \o exc.detail

\* ============================================================ generate_memo
\* main.py 175-177: the except clause catches every Exception raised in the
\* try block, the HTTPExceptions of lines 144 and 147 among them, and answers
\* 500 with str(e).
EndpointError(exc) == HTTPException(500, Str(exc))

\* An exception that is no HTTPException, with its message.
Error(msg) == [status_code |-> 0, detail |-> msg]

MemoFails(c, seen, exc) ==
    [c EXCEPT !.pc = "m_done", !.seen = seen, !.deal_data = None,
              !.memo_text = None, !.docx_url = None,
              !.raised = Some(exc), !.resp = Some(EndpointError(exc))]

\* The precondition as a test for the one status uploading.
MemoAllowed_OnlyUploadingRefused(status) == status # "uploading"

\* main.py 146: the precondition on the status read.
MemoAllowed(status) == status = "processed"

\* main.py 142-151: get_deal returns, the two checks are made and the
\* weightage update is sent.
MemoRead(m) ==
    /\ Arrives(memo, m)
    /\ \E deal_id \in DealIds, weightage \in Weightages, ok \in Outcomes :
          LET deal_data == get_deal(store, deal_id)
              call == [memo[m] EXCEPT !.deal_id = deal_id,
                                      !.weightage = weightage]
          IN /\ Fault(ok)
             /\ memo' = [memo EXCEPT ![m] =
                  IF ~ok
                  THEN MemoFails(call, "unread", Error(StoreError))
                  ELSE IF deal_data = None
                  THEN MemoFails(call, "absent",
                                 HTTPException(404, "Deal not found"))
                  ELSE IF ~MemoAllowed(deal_data[1].metadata.status)
                  THEN MemoFails(call, deal_data[1].metadata.status,
                           HTTPException(400, "Deal processing not complete"))
                  ELSE [call EXCEPT !.pc = "m_weight",
                                    !.seen = deal_data[1].metadata.status,
                                    !.deal_data = deal_data]]
    /\ UNCHANGED <<store, up, del, stat, dl, job, alone>>

\* gemini_summarizer.generate_memo: a text written from the deal record and
\* the weighting.
generate_memo_text(deal_data, weightage) ==
    [company |-> deal_data.metadata.company_name, weightage |-> weightage]

\* main.py 149-151: the one field of the weightage update.
WeightageFields(c) == ("metadata.weightage" :> Some(c.weightage))

\* main.py 149-154: the weightage update is applied; the memo is requested.
MemoWeightage(m) ==
    /\ LoopFree
    /\ memo[m].pc = "m_weight"
    /\ \E ok \in Outcomes :
          /\ Fault(ok)
          /\ alone' = AloneUpdate(memo[m].deal_id, DealOf(memo[m]), ok,
                                  WeightageFields(memo[m]))
          /\ IF UpdateRaises(store, DealOf(memo[m]), ok)
             THEN /\ memo' = [memo EXCEPT ![m] =
                                 MemoFails(@, @.seen, Error(UpdateError(ok)))]
                  /\ UNCHANGED store
             ELSE /\ store' = update_deal(store, DealOf(memo[m]),
                                  WeightageFields(memo[m]))
                  /\ memo' = [memo EXCEPT
                                ![m].pc = "m_gen",
                                ![m].wrote = @ \cup DOMAIN WeightageFields(memo[m])]
    /\ UNCHANGED <<up, del, stat, dl, job>>

\* main.py 154-157: the memo text returns; the DOCX export is requested.
MemoGenerate(m) ==
    /\ LoopFree
    /\ memo[m].pc = "m_gen"
    /\ \E ok \in Outcomes :
          /\ Fault(ok)
          /\ memo' = [memo EXCEPT ![m] =
                IF ok
                THEN [@ EXCEPT !.pc = "m_docx",
                               !.memo_text =
                                   Some(generate_memo_text(memo[m].deal_data[1],
                                                           memo[m].weightage))]
                ELSE MemoFails(@, @.seen, Error(MemoError))]
    /\ UNCHANGED <<store, up, del, stat, dl, job, alone>>

\* main.py 157-159: the export returns its URL; the deal is read again.
MemoExport(m) ==
    /\ LoopFree
    /\ memo[m].pc = "m_docx"
    /\ \E ok \in Outcomes :
          /\ Fault(ok)
          /\ memo' = [memo EXCEPT ![m] =
                IF ok
                THEN [@ EXCEPT !.pc = "m_reread",
                               !.docx_url = Some("gs://memo.docx")]
                ELSE MemoFails(@, @.seen, Error(DocxError))]
    /\ UNCHANGED <<store, up, del, stat, dl, job, alone>>

\* main.py 159-166: get_deal returns deal_data_to_Send; the memo update is sent.
MemoReread(m) ==
    /\ LoopFree
    /\ memo[m].pc = "m_reread"
    /\ \E ok \in Outcomes :
          /\ Fault(ok)
          /\ memo' = [memo EXCEPT ![m] =
                IF ok
                THEN [@ EXCEPT !.pc = "m_save"]
                ELSE MemoFails(@, @.seen, Error(StoreError))]
    /\ UNCHANGED <<store, up, del, stat, dl, job, alone>>

\* The memo update with a status written beside the memo.
MemoFields_SetsStatus(c) ==
    ("memo" :> Some([draft_v1 |-> c.memo_text[1], docx_url |-> c.docx_url[1],
                     generated_at |-> "t"]))
    @@ ("metadata.status" :> "memo_generated")

\* main.py 161-166: the one field of the memo update.
MemoFields(c) ==
    ("memo" :> Some([draft_v1 |-> c.memo_text[1], docx_url |-> c.docx_url[1],
                     generated_at |-> "t"]))

\* main.py 166-173: the memo update is applied and the response returned.
MemoSave(m) ==
    /\ LoopFree
    /\ memo[m].pc = "m_save"
    /\ \E ok \in Outcomes :
          /\ Fault(ok)
          /\ alone' = AloneUpdate(memo[m].deal_id, DealOf(memo[m]), ok,
                                  MemoFields(memo[m]))
          /\ IF UpdateRaises(store, DealOf(memo[m]), ok)
             THEN /\ memo' = [memo EXCEPT ![m] =
                                 MemoFails(@, @.seen, Error(UpdateError(ok)))]
                  /\ UNCHANGED store
             ELSE /\ store' = update_deal(store, DealOf(memo[m]),
                                  MemoFields(memo[m]))
                  /\ memo' = [memo EXCEPT ![m].pc = "m_done",
                                          ![m].deal_data = None,
                                          ![m].memo_text = None,
                                          ![m].docx_url = None,
                                          ![m].wrote = @ \cup DOMAIN MemoFields(memo[m]),
                                          ![m].resp = Some(HTTPException(200, "memo"))]
    /\ UNCHANGED <<up, del, stat, dl, job>>

\* =================================================== GET /status/{deal_id}
\* main.py 126-135: get_deal returns; the 404 of line 129 is raised inside
\* the try block and caught by line 133, which answers 500.
get_processing_status(q) ==
    /\ Arrives(stat, q)
    /\ \E deal_id \in DealIds, ok \in Outcomes :
          LET deal_data == get_deal(store, deal_id)
              answer(found, raised, resp) ==
                  [pc |-> "s_done", deal_id |-> deal_id, found |-> found,
                   raised |-> raised, resp |-> Some(resp)]
          IN /\ Fault(ok)
             /\ stat' = [stat EXCEPT ![q] =
                  IF ~ok
                  THEN answer("unread", Some(Error(StoreError)),
                              EndpointError(Error(StoreError)))
                  ELSE IF deal_data = None
                  THEN answer("absent",
                              Some(HTTPException(404, "Deal not found")),
                              EndpointError(HTTPException(404, "Deal not found")))
                  ELSE answer("found", None,
                              HTTPException(200, deal_data[1].metadata.status))]
    /\ UNCHANGED <<store, up, memo, del, dl, job, alone>>

\* ================================================ DELETE /deals/{deal_id}
DeleteFails(c, exc) ==
    [c EXCEPT !.pc = "d_done", !.raised = Some(exc),
              !.resp = Some(EndpointError(exc))]

\* main.py 261-265: get_deal returns; delete_deal is sent.
DeleteRead(x) ==
    /\ Arrives(del, x)
    /\ \E deal_id \in DealIds, ok \in Outcomes :
          LET call == [del[x] EXCEPT !.deal_id = deal_id] IN
          /\ Fault(ok)
          /\ del' = [del EXCEPT ![x] =
                IF ~ok
                THEN DeleteFails(call, Error(StoreError))
                ELSE IF get_deal(store, deal_id) = None
                THEN DeleteFails(call, HTTPException(404, "Deal not found"))
                ELSE [call EXCEPT !.pc = "d_delete"]]
    /\ UNCHANGED <<store, up, memo, stat, dl, job, alone>>

\* main.py 265-267: the document is deleted and the response returned.
DeleteDeal(x) ==
    /\ LoopFree
    /\ del[x].pc = "d_delete"
    /\ \E ok \in Outcomes :
          /\ Fault(ok)
          /\ alone' = AloneDelete(del[x].deal_id, del[x].deal_id, ok)
          /\ IF ok
             THEN /\ store' = delete_deal(store, del[x].deal_id)
                  /\ del' = [del EXCEPT ![x].pc = "d_done",
                                        ![x].resp = Some(HTTPException(200, "deleted"))]
             ELSE /\ del' = [del EXCEPT ![x] = DeleteFails(@, Error(StoreError))]
                  /\ UNCHANGED store
    /\ UNCHANGED <<up, memo, stat, dl, job>>

\* ============================================ GET /download_memo/{deal_id}
\* main.py 272-290 has no try block: an HTTPException raised there is the
\* response, any other exception leaves the endpoint and the server
\* answers 500.
Unhandled(c, msg) ==
    [c EXCEPT !.pc = "g_done", !.unhandled = Some(msg), !.gs_url = None,
              !.resp = Some(HTTPException(500, "Internal Server Error"))]

\* The test for the missing document alone.
MemoMissing_OnlyNoDeal(deal_data) == deal_data = None
\* main.py:276, on what get_deal returned.
MemoMissing(deal_data) == deal_data = None \/ deal_data[1].memo = None

\* main.py 274-279: get_deal returns; without a memo the call ends with
\* 404; otherwise gs_url is read and download_file is sent.
DownloadRead(g) ==
    /\ Arrives(dl, g)
    /\ \E deal_id \in DealIds, ok \in Outcomes :
          LET call == [dl[g] EXCEPT !.deal_id = deal_id]
              deal_data == get_deal(store, deal_id)
              found == IF deal_data = None THEN "absent"
                       ELSE IF deal_data[1].memo = None THEN "no_memo"
                       ELSE "memo"
              read == [call EXCEPT !.found = found]
          IN /\ Fault(ok)
             /\ dl' = [dl EXCEPT ![g] =
                   IF ~ok
                   THEN Unhandled(call, StoreError)
                   ELSE IF MemoMissing(deal_data)
                   THEN [read EXCEPT !.pc = "g_done",
                            !.resp = Some(HTTPException(404, "Memo not found"))]
                   ELSE IF found = "memo"
                   THEN [read EXCEPT !.pc = "g_blob", !.blob = TRUE,
                            !.gs_url = Some(deal_data[1].memo[1].docx_url)]
                   ELSE Unhandled(read, IF found = "absent"
                                        THEN NoneSubscriptError
                                        ELSE KeyErrorMemo)]
    /\ UNCHANGED <<store, up, memo, del, stat, job, alone>>

\* main.py 283-290: download_file returns and the document is streamed.
DownloadBlob(g) ==
    /\ LoopFree
    /\ dl[g].pc = "g_blob"
    /\ \E ok \in Outcomes :
          /\ Fault(ok)
          /\ dl' = [dl EXCEPT ![g] =
                IF ok
                THEN [@ EXCEPT !.pc = "g_done", !.gs_url = None,
                               !.resp = Some(HTTPException(200, "memo docx"))]
                ELSE Unhandled(@, BlobError)]
    /\ UNCHANGED <<store, up, memo, del, stat, job, alone>>

Next ==
    \/ \E u \in Uploads : UploadCreate(u)
    \/ \E u \in Uploads : UploadBlob(u)
    \/ \E u \in Uploads : UploadRawFiles(u)
    \/ \E u \in Uploads : ProcStart(u)
    \/ \E u \in Uploads : ProcOcr(u)
    \/ \E u \in Uploads : ProcSummarize(u)
    \/ \E u \in Uploads : ProcGetDeal(u)
    \/ \E u \in Uploads : ProcGather(u)
    \/ \E u \in Uploads : ProcCommit(u)
    \/ \E u \in Uploads : ProcHandler(u)
    \/ \E m \in MemoCalls : MemoRead(m)
    \/ \E m \in MemoCalls : MemoWeightage(m)
    \/ \E m \in MemoCalls : MemoGenerate(m)
    \/ \E m \in MemoCalls : MemoExport(m)
    \/ \E m \in MemoCalls : MemoReread(m)
    \/ \E m \in MemoCalls : MemoSave(m)
    \/ \E q \in StatusCalls : get_processing_status(q)
    \/ \E x \in Deletes : DeleteRead(x)
    \/ \E x \in Deletes : DeleteDeal(x)
    \/ \E g \in Downloads : DownloadRead(g)
    \/ \E g \in Downloads : DownloadBlob(g)

Spec == Init /\ [][Next]_vars

\* ======================================== _extract_text_from_pdf on its own
\* The page responses tried: a page with text, one whose text has blanks
\* around it, a page without anything, a page whose text is one blank, a
\* page without full text whose words give "go to" (two paragraphs, the
\* second without words), and one whose pages cannot be walked.
PageSamples ==
    { Response("alpha", <<>>, FALSE),
      Response(" beta ", <<>>, FALSE),
      Response("", <<>>, FALSE),
      Response(" ", <<>>, FALSE),
      Response("", << << << << <<"g", "o">>, <<"t", "o">> >>, <<>> >> >> >>, FALSE),
      Response("", <<>>, TRUE) }

\* The names under out_prefix tried: 1.json, 10.json, 2.json and 1.txt.
ArtifactNames ==
    { Name(<<"1">>), Name(<<"1", "0">>), Name(<<"2">>),
      <<"1", ".", "t", "x", "t">> }

SeqsUpTo(S, n) == UNION {[1..k -> S] : k \in 0..n}

Bodies ==
    {NotJson, JsonBody(None)}
        \cup {JsonBody(Some(r)) : r \in SeqsUpTo(PageSamples, MaxPages)}

\* The page responses a sequence of bodies holds in all.
RECURSIVE NumPages(_)
NumPages(bodies) ==
    IF bodies = <<>> THEN 0
    ELSE Len(Responses(Head(bodies))) + NumPages(Tail(bodies))

\* The contents of k artifacts holding up to MaxPages page responses in all.
BodySeqs(k) == {bs \in [1..k -> Bodies] : NumPages(bs) <= MaxPages}

\* k distinct names, in any order.
NameSeqs(k) ==
    {ns \in [1..k -> ArtifactNames] :
        \A i, j \in 1..k : i # j => ns[i] # ns[j]}

\* What list_blobs returns: the artifacts with these names and contents.
Listing(ns, bs) == [i \in 1..Len(ns) |-> [name |-> ns[i], body |-> bs[i]]]

\* _extract_text_from_pdf is called on a job whose output is up to MaxBlobs
\* artifacts with distinct names, listed in any order.
InitOcr ==
    /\ store = <<>>
    /\ up = [u \in Uploads |-> IdleUpload]
    /\ memo = [m \in MemoCalls |-> IdleMemo]
    /\ del = [x \in Deletes |-> IdleDelete]
    /\ stat = [q \in StatusCalls |-> IdleStatus]
    /\ dl = [g \in Downloads |-> IdleDownload]
    /\ faults = 0
    /\ alone = [a \in DealIds |-> <<>>]
    /\ \E k \in 0..MaxBlobs :
          \E bs \in BodySeqs(k), ns \in NameSeqs(k) :
              job = [pc |-> "called", listing |-> Listing(ns, bs),
                     fail |-> "none", raised |-> FALSE, page_texts |-> <<>>,
                     raw |-> EmptyDict, concise |-> None]

\* ocr_utils.py:42: _extract_text_from_pdf returns.
ExtractText ==
    /\ job.pc = "called"
    /\ \E fail \in FailPoints :
          job' = [job EXCEPT !.pc = "extracted", !.fail = fail,
                     !.raised = Extraction(job.listing, fail).raised,
                     !.page_texts = extract_text_from_pdf(job.listing, fail)]
    /\ UNCHANGED <<store, up, memo, del, stat, dl, faults, alone>>

\* ocr_utils.py 50-68: the summarizer returns or raises, and process_pdf
\* returns its result or the fallback; raw and concise are kept of it.
PdfRaw ==
    /\ job.pc = "extracted"
    /\ \E ok \in BOOLEAN :
          LET pdf_data == IF ok
                          THEN PdfData(job.page_texts,
                                   summarize_pitch_deck(full_text(job.page_texts)))
                          ELSE PdfFallback
          IN job' = [job EXCEPT !.pc = "returned", !.raw = pdf_data.raw,
                                !.concise = Some(pdf_data.concise)]
    /\ UNCHANGED <<store, up, memo, del, stat, dl, faults, alone>>

NextOcr ==
    \/ ExtractText
    \/ PdfRaw

SpecOcr == InitOcr /\ [][NextOcr]_vars

\* ================================================================ properties
Status(d) == store[d].metadata.status
TaskOver(t) == t.pc \in {"p_done", "p_crashed"}
Code(call) == call.resp[1].status_code

\* ---------------------------------------------------------------------- C1
\* The status changes the claim allows: uploading to processing, processing
\* to processed, and uploading or processing to error.
StatusStepAllowed(a, b) ==
    \/ a = b
    \/ <<a, b>> \in {<<"uploading", "processing">>, <<"processing", "processed">>,
                     <<"uploading", "error">>, <<"processing", "error">>}

\* C1: in every step, the stored status of every deal either stays as it is
\* or makes one of the allowed changes; in particular it never moves
\* backward and never leaves error.
C1_StatusMonotonic ==
    [][\A d \in DOMAIN store \cap DOMAIN store' :
          StatusStepAllowed(store[d].metadata.status,
                            store'[d].metadata.status)]_vars

\* ---------------------------------------------------------------------- C2
\* C2: when a Process execution whose extraction and summarization
\* succeeded caught the exception of gather_data and has set the status to
\* error, the deal's extracted_text is stored.
C2_ExtractedTextDurable ==
    \A u \in Uploads :
        ( /\ up[u].pc = "p_done"
          /\ up[u].e = Some(GatherError)
          /\ "set_error" \in up[u].hist
          /\ up[u].deal_id \in DOMAIN store
          /\ Status(up[u].deal_id) = "error" )
        => IsSome(store[up[u].deal_id].extracted_text)

\* ---------------------------------------------------------------------- C3
\* C3: a Process execution that has set the status to processing and is over
\* has set it to processed or to error.
C3_NeverLeftProcessing ==
    \A u \in Uploads :
        (TaskOver(up[u]) /\ "set_processing" \in up[u].hist)
        => ("committed" \in up[u].hist \/ "set_error" \in up[u].hist)

\* ---------------------------------------------------------------------- C4
\* C4: a generate-memo call that read the status uploading or processing is
\* over, was answered with an error, and has written nothing to the store.
C4_MemoRejectedEarly ==
    \A m \in MemoCalls :
        memo[m].seen \in {"uploading", "processing"}
        => /\ memo[m].pc = "m_done"
           /\ Code(memo[m]) >= 400
           /\ memo[m].wrote = {}

\* C4's case: a call rejected while the deal's Process execution is running.
C4_Witness ==
    \E m \in MemoCalls, u \in Uploads :
        /\ memo[m].seen = "processing"
        /\ memo[m].pc = "m_done"
        /\ up[u].deal_id = memo[m].deal_id
        /\ up[u].pc \in {"p_sum", "p_get", "p_gather", "p_commit"}

\* ---------------------------------------------------------------------- C5
\* C5: a generate-memo call on a stored deal whose status is not processed
\* is answered 400.
C5_MemoEarlyIs400 ==
    \A m \in MemoCalls :
        (memo[m].pc = "m_done" /\ memo[m].seen \in {"uploading", "processing", "error"})
        => Code(memo[m]) = 400

\* ---------------------------------------------------------------------- C6
\* C6: every stored deal that has a memo has status processed.
C6_MemoOnlyWhenProcessed ==
    \A d \in DOMAIN store : IsSome(store[d].memo) => Status(d) = "processed"

\* ---------------------------------------------------------------------- C7
\* A document with the two fields generate_memo owns blanked.
OutsideMemo(doc) ==
    [doc EXCEPT !.memo = None, !.metadata.weightage = None]

\* C7: a step of a generate-memo call, successful or failing, changes no
\* document but its own deal's, and of that one only metadata.weightage and
\* memo.
C7_MemoFrame ==
    [][\A m \in MemoCalls :
          memo'[m] # memo[m]
          => /\ DOMAIN store' = DOMAIN store
             /\ \A d \in DOMAIN store :
                   /\ OutsideMemo(store'[d]) = OutsideMemo(store[d])
                   /\ d # memo'[m].deal_id => store'[d] = store[d]]_vars

\* C7's case: a call has written both of its fields and returned.
C7_Witness ==
    \E m \in MemoCalls :
        /\ memo[m].pc = "m_done"
        /\ memo[m].wrote = {"metadata.weightage", "memo"}
        /\ memo[m].deal_id \in DOMAIN store
        /\ IsSome(store[memo[m].deal_id].memo)
        /\ store[memo[m].deal_id].metadata.weightage = Some(memo[m].weightage)
        /\ Status(memo[m].deal_id) = "processed"

\* ---------------------------------------------------------------------- C8
\* The six fields the success commit writes beside the status.
CommitOwned(doc) ==
    <<doc.extracted_text, doc.public_data, doc.metadata.processed_at,
      doc.metadata.company_name, doc.metadata.founder_names,
      doc.metadata.sector>>

PresentOwned(doc) == {i \in 1..6 : IsSome(CommitOwned(doc)[i])}

\* C8: a stored deal with status processed has all six fields of the success
\* commit, and no stored deal has some of the six without the others.
C8_CommitAtomic ==
    \A d \in DOMAIN store :
        /\ Status(d) = "processed" => PresentOwned(store[d]) = 1..6
        /\ PresentOwned(store[d]) \in {{}, 1..6}

\* C8's case: a Process execution has committed and its deal reads processed.
C8_Witness ==
    \E u \in Uploads :
        /\ "committed" \in up[u].hist
        /\ up[u].deal_id \in DOMAIN store
        /\ Status(up[u].deal_id) = "processed"
        /\ PresentOwned(store[up[u].deal_id]) = 1..6

\* ---------------------------------------------------------------------- C9
\* C9: a Process execution that caught an exception ends by returning, with
\* status error and metadata.error written.
C9_NoEscapedException ==
    \A u \in Uploads :
        (TaskOver(up[u]) /\ IsSome(up[u].e))
        => (up[u].pc = "p_done" /\ "set_error" \in up[u].hist)

\* --------------------------------------------------------------------- C10
\* C10: a status query for a deal_id with no stored document is answered 404.
C10_StatusUnknownIs404 ==
    \A q \in StatusCalls :
        (stat[q].pc = "s_done" /\ stat[q].found = "absent")
        => Code(stat[q]) = 404

\* ---------------------------------------------------------------- C11
\* C11: a GET /download_memo call whose get_deal found no deal, or a deal
\* without a memo sub-document, has ended with response 404, has not called
\* download_file and has raised nothing that left the endpoint unhandled.
C11_DownloadMissingIs404 ==
    \A g \in Downloads :
        dl[g].found \in {"absent", "no_memo"} =>
            /\ dl[g].pc = "g_done"
            /\ Code(dl[g]) = 404
            /\ ~dl[g].blob
            /\ dl[g].unhandled = None

\* A download asked for a stored deal that has no memo, in a status other
\* than uploading, and was answered.
C11_Witness ==
    \E g \in Downloads :
        /\ dl[g].found = "no_memo"
        /\ dl[g].pc = "g_done"
        /\ dl[g].deal_id \in DOMAIN store
        /\ Status(dl[g].deal_id) \in {"processing", "processed", "error"}

\* ---------------------------------------------------------------- C12
\* The program counters of a scheduled process_deal task.
ProcPcs ==
    {"p_start", "p_ocr", "p_sum", "p_get", "p_gather", "p_commit",
     "p_handler", "p_done", "p_crashed"}
Scheduled(t) == t.pc \in ProcPcs

\* C12: an upload that answered success has scheduled its process_deal task,
\* an upload that failed has scheduled none (its task has made no write), and
\* no two scheduled process_deal tasks are for the same deal_id.
C12_OneProcessPerDeal ==
    /\ \A u \in Uploads :
          /\ (up[u].resp # None /\ Code(up[u]) = 200) <=> Scheduled(up[u])
          /\ up[u].pc = "u_failed" => up[u].hist = {}
    /\ \A u, v \in Uploads :
          (u # v /\ Scheduled(up[u]) /\ Scheduled(up[v]))
              => up[u].deal_id # up[v].deal_id

\* ---------------------------------------------------------------- C13
\* C13: no two uploads have been given the same deal_id, and every stored
\* record holds the deal_id it is stored under.
C13_DealIdsUnique ==
    /\ \A u, v \in Uploads :
          (u # v /\ up[u].pc # "idle" /\ up[v].pc # "idle")
              => up[u].deal_id # up[v].deal_id
    /\ \A d \in DOMAIN store : store[d].metadata.deal_id = d

\* ---------------------------------------------------------------- C14
\* The page responses of a listing, in the order the blobs are read.
JsonBlobs(blobs) == SelectSeq(blobs, LAMBDA b : EndsWithJson(b.name))
PageResponses(listing) ==
    LET blobs == JsonBlobs(SortedByName(listing))
    IN Flatten([i \in 1..Len(blobs) |-> Responses(blobs[i].body)])
Extracted == job.pc \in {"extracted", "returned"}

\* C14: when no step of the extraction raised and there is at least one
\* page response, the extraction returns one entry per page response, in
\* order, entry k being the stripped text of page k (the empty string for a
\* page without text), and key str(k) of raw holds the same text when the
\* summarizer returned.
C14_OneEntryPerPage ==
    (Extracted /\ ~job.raised /\ PageResponses(job.listing) # <<>>) =>
        LET pages == PageResponses(job.listing) IN
        /\ Len(job.page_texts) = Len(pages)
        /\ \A k \in 1..Len(pages) :
              job.page_texts[k] = Strip(PageText(pages[k]))
        /\ (job.pc = "returned" /\ job.concise # Some(PdfFallback.concise)) =>
              \A k \in 1..Len(pages) :
                  job.raw[PageKey(k)] = Strip(PageText(pages[k]))

\* ---------------------------------------------------------------- C15
\* name ends in .json.
IsJsonName(name) ==
    \E k \in 0..Len(name) : name = SubSeq(name, 1, k) \o DotJson

\* a comes before b in lexicographic order: at the first place where they
\* differ a has ended or has the smaller character.
Before(a, b) ==
    \E k \in 1..Len(b) :
        /\ \A i \in 1..(k - 1) : i <= Len(a) /\ a[i] = b[i]
        /\ IF k > Len(a) THEN TRUE ELSE Ord(a[k]) < Ord(b[k])

\* The artifacts of a listing whose names end in .json, in ascending order
\* of name.
InNameOrder(listing) ==
    LET json == {i \in DOMAIN listing : IsJsonName(listing[i].name)}
        rank(i) == Cardinality({j \in json :
                                  Before(listing[j].name, listing[i].name)}) + 1
    IN [r \in 1..Cardinality(json) |->
            listing[CHOOSE i \in json : rank(i) = r]]

NonEmpty(texts) == SelectSeq(texts, LAMBDA t : t # "")

\* The texts of the pages of one artifact that have text.
ArtifactTexts(blob) ==
    LET responses == Responses(blob.body)
    IN NonEmpty([k \in 1..Len(responses) |-> Strip(PageText(responses[k]))])

\* C15: when no step of the extraction raised, the page texts it returns
\* (its non-empty entries) are the page texts of the artifacts whose names
\* end in .json, artifact after artifact in ascending lexicographic order of
\* name, whatever the order of the listing and whatever the other artifacts
\* hold.
C15_SortedJsonArtifacts ==
    (Extracted /\ ~job.raised) =>
        LET blobs == InNameOrder(job.listing)
        IN NonEmpty(job.page_texts)
              = Flatten([r \in 1..Len(blobs) |-> ArtifactTexts(blobs[r])])

\* An extraction has returned for a listing of three artifacts in which a
\* .json artifact is listed before one with a smaller name, both holding
\* page text, next to an artifact that is not named .json.
C15_Witness ==
    /\ Extracted
    /\ ~job.raised
    /\ Len(job.listing) = 3
    /\ \E i, j, n \in DOMAIN job.listing :
          /\ i < j
          /\ IsJsonName(job.listing[i].name)
          /\ IsJsonName(job.listing[j].name)
          /\ Before(job.listing[j].name, job.listing[i].name)
          /\ ArtifactTexts(job.listing[i]) # <<>>
          /\ ArtifactTexts(job.listing[j]) # <<>>
          /\ ~IsJsonName(job.listing[n].name)

\* ---------------------------------------------------------------- C16
\* C16: a process_deal task in whose text extraction a step raised got
\* exactly [""] from it and went on to the summarizer; its raw pages are
\* {"1": ""}; the except clause of process_deal is entered only for a
\* failure of the summarizer, the Deal Store or the enrichment; and when
\* none of these failed the task has committed status processed.
C16_ExtractionFailureIsEmptyPage ==
    \A u \in Uploads :
        up[u].ocr = "raised" =>
            /\ up[u].pc \notin {"p_start", "p_ocr"}
            /\ up[u].pc = "p_sum" => up[u].page_texts = Some(<<"">>)
            /\ up[u].pc \in {"p_get", "p_gather", "p_commit"} =>
                  /\ up[u].temp_res.raw = ("1" :> "")
                  /\ up[u].extracted_text[1].pitch_deck.raw = ("1" :> "")
            /\ up[u].e # None =>
                  up[u].e[1] \in {KeyErrorCompany, StoreError, NotFoundError,
                                  NoneSubscriptError, GatherError}
            /\ (TaskOver(up[u]) /\ up[u].e = None) =>
                  /\ up[u].pc = "p_done"
                  /\ "committed" \in up[u].hist

\* A task whose extraction raised has committed, and its deal is processed
\* with the single empty page as raw text.
C16_Witness ==
    \E u \in Uploads :
        /\ up[u].ocr = "raised"
        /\ up[u].pc = "p_done"
        /\ "committed" \in up[u].hist
        /\ up[u].deal_id \in DOMAIN store
        /\ Status(up[u].deal_id) = "processed"
        /\ store[up[u].deal_id].extracted_text
              = Some([pitch_deck |-> [raw |-> ("1" :> ""), concise |-> ""]])

\* ---------------------------------------------------------------- C17
\* Every record but that of deal a is the same before and after the step.
OthersUnchanged(a) ==
    \A b \in DealIds \ {a} :
        /\ b \in DOMAIN store <=> b \in DOMAIN store'
        /\ b \in DOMAIN store => store'[b] = store[b]

\* Every deal's record is the record its own calls alone have left, and what
\* a process_deal task or a generate_memo call reads from the Deal Store is
\* what it reads in the run of its deal's calls alone.
AloneRecords ==
    /\ \A a \in DealIds :
          /\ get_deal(store, a) = get_deal(alone[a], a)
          /\ DOMAIN alone[a] \subseteq {a}
    /\ \A u \in Uploads :
          Scheduled(up[u]) =>
              get_deal(store, DealOf(up[u]))
                  = get_deal(alone[up[u].deal_id], DealOf(up[u]))
    /\ \A m \in MemoCalls :
          memo[m].pc # "idle" =>
              get_deal(store, DealOf(memo[m]))
                  = get_deal(alone[memo[m].deal_id], DealOf(memo[m]))

\* C17: every step of a process_deal task and every step of a generate_memo
\* call leaves the records of all deals but its own unchanged, whatever
\* other tasks and calls are in progress; and at every point of every
\* interleaving, so at its end, each deal's record equals the record of the
\* run in which only the calls for that deal take place, with the same
\* outcomes.
C17_DealsIndependent ==
    /\ []AloneRecords
    /\ [][ /\ \A u \in Uploads :
                  (Scheduled(up[u]) /\ up'[u] # up[u])
                      => OthersUnchanged(up[u].deal_id)
            /\ \A m \in MemoCalls :
                  memo'[m] # memo[m] => OthersUnchanged(memo'[m].deal_id) ]_vars

\* A process_deal task of one deal has finished and a generate_memo call of
\* another deal has made its two writes, after the two were in progress
\* together: both records are final and each is the record of its own calls
\* alone.
C17_Witness ==
    \E u \in Uploads, m \in MemoCalls :
        /\ up[u].pc = "p_done"
        /\ memo[m].pc = "m_done"
        /\ up[u].deal_id # memo[m].deal_id
        /\ memo[m].deal_id \in DOMAIN store
        /\ up[u].deal_id \in DOMAIN store
        /\ store[memo[m].deal_id].memo # None
        /\ store[up[u].deal_id].metadata.status \in {"processed", "error"}
        /\ store[up[u].deal_id] = alone[up[u].deal_id][up[u].deal_id]
        /\ store[memo[m].deal_id] = alone[memo[m].deal_id][memo[m].deal_id]

\* ---------------------------------------------------------------- C18
\* C18: when the summarizer raised in a process_deal task (process_pdf
\* returned its fallback), no other call has failed and the task's except
\* clause writes status error, the metadata.error it writes is the
\* summarizer's message.
C18_ErrorIsSummarizerMessage ==
    [][ \A u \in Uploads :
          ( /\ up[u].pc = "p_handler"
            /\ faults = 1
            /\ up[u].temp_res = PdfFallback
            /\ up'[u].pc = "p_done" )
              => store'[up[u].deal_id].metadata.error = Some(SummarizerError) ]_vars

\* ---------------------------------------------------------------- C19
\* C19: while a process_deal task is inside the Vision calls, waiting for
\* the OCR job, the event loop can run the other operations: a status query
\* that arrives is answered, an upload that is waiting for the Blob Store
\* goes on, and another task that is waiting for the summarizer, the Deal
\* Store or the enrichment goes on.
C19_OcrWaitYields ==
    \A u \in Uploads :
        up[u].pc = "p_ocr" =>
            /\ \A q \in StatusCalls :
                  ( /\ NumCalls < MaxCalls
                    /\ stat[q].pc = "idle"
                    /\ \A r \in StatusCalls : r < q => stat[r].pc # "idle" )
                      => ENABLED get_processing_status(q)
            /\ \A v \in Uploads :
                  /\ up[v].pc = "u_blob" => ENABLED UploadBlob(v)
                  /\ up[v].pc = "p_sum" => ENABLED ProcSummarize(v)
                  /\ up[v].pc = "p_get" => ENABLED ProcGetDeal(v)
                  /\ up[v].pc = "p_gather" => ENABLED ProcGather(v)

\* ---------------------------------------------------------------- C20
\* An upload that failed after its create_deal had returned: at the blob
\* upload or at the raw_files update.
FailedAfterCreate(t) == t.pc = "u_failed" /\ t.created

\* C20: an upload that failed after its record was created was answered
\* 500 and has scheduled no process_deal task, and its record, as long as it
\* is stored, has status uploading.
C20_FailedUploadStaysUploading ==
    \A u \in Uploads :
        FailedAfterCreate(up[u]) =>
            /\ Code(up[u]) = 500
            /\ ~Scheduled(up[u])
            /\ up[u].hist = {}
            /\ up[u].deal_id \in DOMAIN store =>
                  Status(up[u].deal_id) = "uploading"

\* ---------------------------------------------------------------- C21
\* The generate_memo calls made for deal d.
MemoCallsOf(d) == {m \in MemoCalls : memo[m].pc # "idle" /\ memo[m].deal_id = d}

\* C21: when two or more generate_memo calls were made for a stored deal and
\* all of them have completed with success, the stored metadata.weightage is
\* the weighting the stored memo.draft_v1 was written from.
C21_WeightageMatchesMemo ==
    \A d \in DOMAIN store :
        ( /\ Cardinality(MemoCallsOf(d)) >= 2
          /\ \A m \in MemoCallsOf(d) :
                memo[m].pc = "m_done" /\ Code(memo[m]) = 200
          /\ IsSome(store[d].memo)
          /\ IsSome(store[d].metadata.weightage) )
            => store[d].memo[1].draft_v1.weightage
                  = store[d].metadata.weightage[1]
====
